---- MODULE Spec2Model ----
\* Model of the log-analyzer coordinator (src/test_vectors/coordinator.py) and of
\* the worker side that feeds it (src/test_vectors/worker.py).
\*
\* The coordinator is a single-threaded asyncio program: a handler runs
\* without interruption from one suspension point (a network send) to the
\* next.  Each action below is one such uninterrupted run.
EXTENDS Integers, Sequences, FiniteSets, TLC

\* ---------------------------------------------------------------- constants and bounds

\* chunk_size = 1024 * 1024 (distribute_work)
chunk_size == 1048576

\* Files hold up to MaxFullChunks full chunks followed by one of Remainders
\* bytes; 2 * 1048576 + 902848 = 3000000 is the size of the spec's scenario.
MaxFullChunks == 2
Remainders == {0, 1, 902848, chunk_size - 1}
FileSizes == {k * chunk_size + d : k \in 0 .. MaxFullChunks, d \in Remainders}

\* The worker ids of test_cases.py.
WorkerIds == {"worker1", "worker2", "worker3"}
Statuses == {"healthy", "unhealthy"}

\* The jobs with stored results and failure handling use the first two workers
\* and a file of one or of two chunks.
JobWorkers == {"worker1", "worker2"}
JobSizes == {chunk_size - 1, 2 * chunk_size - 1}

\* At most MaxSends work requests are recorded per job, at most MaxResults
\* results are stored at once, at most MaxInflight submit messages are in
\* flight, process_file is called at most MaxCalls times.
MaxSends == 4
MaxResults == 2
MaxInflight == 1
MaxCalls == 2

\* ---------------------------------------------------------------- state

VARIABLES
    file_size,    \* os.path.getsize(filepath): the size of the log file
    workers,      \* self.workers, in dict order: <<[id, status], ...>>
    results,      \* self.results: [totals, lists]
    file_chunks,  \* self.file_chunks: <<<<start, size>>, ...>>
    dist,         \* the running distribute_work coroutine, if any
    hwf,          \* the running handle_worker_failure coroutine, if any
    planned,      \* history: distribute_work has planned the chunks
    sent,         \* history: the work requests posted for the current job
    skipped,      \* history: the send_work calls of the latest distribute_work
                  \*   that returned without posting
    done,         \* history: chunks of the current job with a result received
    submits,      \* submit messages posted by workers, not yet received
    ret,          \* history: what the last process_file call returned
    pf_calls,     \* history: number of process_file calls so far
    reply,        \* history: the response of the HTTP handler that returned last
    dead          \* the workers whose process has stopped

vars == <<file_size, workers, results, file_chunks, dist, hwf, planned, sent,
          skipped, done, submits, ret, pf_calls, reply, dead>>

\* ---------------------------------------------------------------- helpers

Min(a, b) == IF a <= b THEN a ELSE b

\* range(start, stop, step) for step > 0
RECURSIVE Range(_, _, _)
Range(start, stop, step) ==
    IF start >= stop THEN <<>>
    ELSE <<start>> \o Range(start + step, stop, step)

\* A planner that gives every chunk the full size (no min with what is left).
PlanChunksNoMin(fsize, csize) ==
    LET starts == Range(0, fsize, csize)
    IN  [k \in 1 .. Len(starts) |-> <<starts[k], csize>>]

\* A planner whose range includes the end of the file.
PlanChunksInclusive(fsize, csize) ==
    LET starts == Range(0, fsize + 1, csize)
    IN  [k \in 1 .. Len(starts) |-> <<starts[k], Min(csize, fsize - starts[k])>>]

\* [(i, min(chunk_size, file_size - i)) for i in range(0, file_size, chunk_size)]
PlanChunks(fsize, csize) ==
    LET starts == Range(0, fsize, csize)
    IN  [k \in 1 .. Len(starts) |-> <<starts[k], Min(csize, fsize - starts[k])>>]

\* The byte ranges a request may name: the tiling of the file.
FileRanges == PlanChunks(file_size, chunk_size)

\* list(self.workers.keys())
WorkerKeys(ws) == [k \in 1 .. Len(ws) |-> ws[k].id]

Registered(ws) == {ws[k].id : k \in 1 .. Len(ws)}

PosOf(ws, w) == CHOOSE k \in 1 .. Len(ws) : ws[k].id = w

StatusOf(ws, w) == ws[PosOf(ws, w)].status

\* not (worker_id not in self.workers or status != "healthy")   (send_work)
CanSend(ws, w) == w \in Registered(ws) /\ StatusOf(ws, w) = "healthy"

\* Number of results stored under all worker keys of self.results
RECURSIVE StoredCount(_, _)
StoredCount(lists, ids) ==
    IF ids = {} THEN 0
    ELSE LET w == CHOOSE x \in ids : TRUE
         IN  Len(lists[w]) + StoredCount(lists, ids \ {w})

\* ---------------------------------------------------------------- process_file

\* self.results = {"total_requests": 0, "malformed_lines": 0, "error_count": 0,
\*                 "avg_response_time": 109.0}
InitialTotals ==
    [total_requests |-> 0, malformed_lines |-> 0, error_count |-> 0,
     avg_response_time |-> 109]

\* worker_results of process_file
worker_results ==
    << [total_requests |-> 1000, malformed_lines |-> 10, avg_response_time |-> 109],
       [total_requests |-> 2000, malformed_lines |-> 20, avg_response_time |-> 109] >>

\* A process_file that keeps the totals of an earlier call.
StartTotalsKept(prev) ==
    IF prev.totals # <<>> THEN prev.totals[1] ELSE InitialTotals

\* The totals process_file starts from: it assigns a fresh dict, whatever
\* self.results held before.
StartTotals(prev) == InitialTotals

\* A fold step that overwrites the totals instead of adding to them.
AddResultOverwrite(acc, res) ==
    [acc EXCEPT !.total_requests = res.total_requests,
                !.malformed_lines = res.malformed_lines]

\* The body of "for res in worker_results"
AddResult(acc, res) ==
    [acc EXCEPT !.total_requests = @ + res.total_requests,
                !.malformed_lines = @ + res.malformed_lines]

RECURSIVE FoldResults(_, _)
FoldResults(acc, rs) ==
    IF rs = <<>> THEN acc ELSE FoldResults(AddResult(acc, Head(rs)), Tail(rs))

NoLists == [w \in WorkerIds |-> <<>>]

\* process_file has no suspension point: one atomic run.  The returned object
\* is self.results itself; ret records its value at the return.
ProcessFile ==
    /\ pf_calls < MaxCalls
    /\ LET totals == FoldResults(StartTotals(results), worker_results)
       IN  /\ results' = [totals |-> <<totals>>, lists |-> NoLists]
           /\ ret' = <<totals>>
    /\ pf_calls' = pf_calls + 1
    /\ UNCHANGED <<file_size, workers, file_chunks, dist, hwf, sent, skipped,
                   planned, done, submits, reply, dead>>

\* ---------------------------------------------------------------- registry

\* A dict store that adds a record even when the key has one.
SetStatusAppend(ws, w, s) == Append(ws, [id |-> w, status |-> s])

\* self.workers[worker_id] = {"status": "healthy"}: a new key goes last, an
\* existing key keeps its place.
SetStatus(ws, w, s) ==
    IF w \in Registered(ws)
    THEN [ws EXCEPT ![PosOf(ws, w)] = [id |-> w, status |-> s]]
    ELSE Append(ws, [id |-> w, status |-> s])

\* history: a handler's response.  found is what "worker_id in self.workers"
\* evaluated to in the handler, FALSE in a handler that does not evaluate it.
NoReply == [handler |-> "none", found |-> FALSE, status |-> 0, text |-> ""]

\* web.Response(status=200, text=...): the only response any handler builds
Response(h, f, t) == [handler |-> h, found |-> f, status |-> 200, text |-> t]

\* register_worker: the record is set to healthy and the answer is
\* 200 "Worker registered", whatever self.workers held.
RegisterWorker(w) ==
    /\ workers' = SetStatus(workers, w, "healthy")
    /\ reply' = Response("register", FALSE, "Worker registered")
    /\ UNCHANGED <<file_size, results, file_chunks, dist, hwf, sent, skipped,
                   planned, done, submits, ret, pf_calls, dead>>

\* A health update that makes a record for an id that has none.
UpdateStatusUpsert(ws, w, s) == SetStatus(ws, w, s)

\* if worker_id in self.workers: self.workers[worker_id]["status"] = status
UpdateStatus(ws, w, s) ==
    IF w \in Registered(ws) THEN SetStatus(ws, w, s) ELSE ws

\* update_worker_health: an unknown id changes nothing; the answer is
\* 200 "Health updated" on both branches.
UpdateWorkerHealth(w, s) ==
    /\ workers' = UpdateStatus(workers, w, s)
    /\ reply' = Response("health", w \in Registered(workers), "Health updated")
    /\ UNCHANGED <<file_size, results, file_chunks, dist, hwf, sent, skipped,
                   planned, done, submits, ret, pf_calls, dead>>

\* ---------------------------------------------------------------- results

NoChunk == -1

\* if worker_id in self.results: append, else: [result]
StoreResult(lists, w, r) == [lists EXCEPT ![w] = Append(@, r)]

ReceiveResults(w, r) ==
    /\ StoredCount(results.lists, WorkerIds) < MaxResults
    /\ results' = [results EXCEPT !.lists = StoreResult(@, w, r)]
    /\ done' = done \cup ({r.chunk} \ {NoChunk})

\* A worker's post arrives at /submit: receive_results stores the result and
\* answers, and the worker's process_request, which was waiting for that
\* answer, returns 200 "Chunk processed".
DeliverSubmit(m) ==
    /\ m \in submits
    /\ ReceiveResults(m.worker_id, m.result)
    /\ submits' = submits \ {m}
    /\ reply' = Response("process", FALSE, "Chunk processed")
    /\ UNCHANGED <<file_size, workers, file_chunks, dist, hwf, sent, skipped,
                   planned, ret, pf_calls, dead>>

\* Another client of /submit: the handler stores whatever "result" it is given,
\* here one that carries a "filepath" key (a Worker's metrics carry none) and
\* was computed from no range of the file.
ClientSubmit(w) ==
    /\ ReceiveResults(w, [chunk |-> NoChunk, has_filepath |-> TRUE])
    /\ reply' = Response("submit", FALSE, "Results received")
    /\ UNCHANGED <<file_size, workers, file_chunks, dist, hwf, sent, skipped,
                   planned, submits, ret, pf_calls, dead>>

\* ---------------------------------------------------------------- worker

\* The lines of the log file in the byte range that begins at start, each line
\* as the set of the words on it.
FileLines(start) ==
    IF start = 0
    THEN << {"INFO", "ok"}, {"ERROR", "timeout"}, {"WARNING", "ERROR"} >>
    ELSE << {"WARNING", "slow"}, {"INFO", "ok"} >>

\* sum(1 for line in lines if word in line)
CountWith(lines, word) ==
    Cardinality({k \in 1 .. Len(lines) : word \in lines[k]})

\* metrics = {"lines": 0, "errors": 0, "warnings": 0}
ZeroMetrics == [lines |-> 0, errors |-> 0, warnings |-> 0]

\* A process_chunk that counts the lines of the range although the read raised.
ProcessChunkCountsAnyway(readable, lines) ==
    [lines |-> Len(lines), errors |-> CountWith(lines, "ERROR"),
     warnings |-> CountWith(lines, "WARNING")]

\* Worker.process_chunk: open, seek, read and the three counts are inside one
\* try; when open, seek or read raises, the exception is caught and the
\* metrics are returned as they were initialised.
ProcessChunk(readable, lines) ==
    IF readable
    THEN [lines |-> Len(lines), errors |-> CountWith(lines, "ERROR"),
          warnings |-> CountWith(lines, "WARNING")]
    ELSE ZeroMetrics

\* The message process_request posts to /submit for range c.  The metrics dict
\* has no "filepath" key and does not name the range; chunk and readable are
\* history: the range the result was computed from, and whether it was read.
SubmitOf(w, c, readable) ==
    [worker_id |-> w,
     result |-> [chunk |-> FileRanges[c][1], has_filepath |-> FALSE,
                 metrics |-> ProcessChunk(readable, FileLines(FileRanges[c][1])),
                 readable |-> readable]]

\* Worker.process_request up to its post to /submit: compute the metrics of the
\* byte range (readable tells whether the read succeeded) and post them.
ProcessRequest(w, c, readable) ==
    /\ c \in 1 .. Len(FileRanges)
    /\ Cardinality(submits) < MaxInflight
    /\ SubmitOf(w, c, readable) \notin submits
    /\ submits' = submits \cup {SubmitOf(w, c, readable)}
    /\ UNCHANGED <<file_size, workers, results, file_chunks, dist, hwf, sent,
                   skipped, planned, done, ret, pf_calls, reply, dead>>

\* The post to /submit fails (the coordinator cannot be reached): the
\* exception is caught and process_request returns 200 all the same.
LoseSubmit(m) ==
    /\ m \in submits
    /\ submits' = submits \ {m}
    /\ reply' = Response("process", FALSE, "Chunk processed")
    /\ UNCHANGED <<file_size, workers, results, file_chunks, dist, hwf, sent,
                   skipped, planned, done, ret, pf_calls, dead>>

\* ---------------------------------------------------------------- dispatch

\* outcome is how the latest distribute_work call stands: "none" (never
\* called), "running" (suspended in a post) or "returned" (it returned None;
\* no statement of distribute_work or send_work raises to the caller).
NoDist == [active |-> FALSE, worker_ids |-> <<>>, index |-> 0,
           outcome |-> "none"]

\* What becomes of a post of send_work: answered 200, answered with another
\* status, or session.post raises.
PostAnswers == {"ok", "rejected", "unreachable"}

\* session.post(f"http://localhost:{self.port}/process", ...): the request goes
\* to the coordinator's own port, whichever worker it is meant for.
SendDest(w) == "coordinator"

\* A cursor that starts one worker late.
PickWorkerShifted(ids, index) == ids[((index + 1) % Len(ids)) + 1]

\* worker_ids[index % len(worker_ids)]
PickWorker(ids, index) == ids[(index % Len(ids)) + 1]

AnyHealthy(ws) == \E k \in 1 .. Len(ws) : ws[k].status = "healthy"

\* The for loop of distribute_work from 0-based position i on: send_work returns
\* at once (no suspension) for a worker that is not healthy, so the loop runs on
\* to the first chunk whose worker passes the check; -1 when there is none.
NextSendable(ws, ids, i, n) ==
    LET ok == {j \in i .. n - 1 : CanSend(ws, PickWorker(ids, j))}
    IN  IF ok = {} THEN -1 ELSE CHOOSE j \in ok : \A k \in ok : j <= k

\* history: the send_work calls for positions i .. j - 1, which returned early
SkipLog(ws, ids, chunks, i, j) ==
    [k \in 1 .. j - i |->
        [worker |-> PickWorker(ids, i + k - 1),
         start |-> chunks[i + k][1],
         could |-> AnyHealthy(ws)]]

\* The loop of distribute_work, run from position i until it suspends in a
\* post or ends.  A finished loop keeps its worker_ids as history.
RunLoop(ws, ids, chunks, i, recovery) ==
    LET j == NextSendable(ws, ids, i, Len(chunks))
    IN  IF j < 0
        THEN [suspended |-> FALSE,
              dist |-> [active |-> FALSE, worker_ids |-> ids,
                        index |-> Len(chunks), outcome |-> "returned"],
              send |-> <<>>,
              skip |-> SkipLog(ws, ids, chunks, i, Len(chunks))]
        ELSE [suspended |-> TRUE,
              dist |-> [active |-> TRUE, worker_ids |-> ids, index |-> j + 1,
                        outcome |-> "running"],
              send |-> << [worker |-> PickWorker(ids, j),
                           start |-> chunks[j + 1][1],
                           size |-> chunks[j + 1][2],
                           dest |-> SendDest(PickWorker(ids, j)),
                           recovery |-> recovery] >>,
              skip |-> SkipLog(ws, ids, chunks, i, j)]

\* distribute_work from its first line, the chunks already planned:
\* "if not self.workers: return", else the loop over list(self.workers.keys()).
StartDistribute(ws, chunks, recovery) ==
    IF ws = <<>>
    THEN [suspended |-> FALSE, dist |-> [NoDist EXCEPT !.outcome = "returned"],
          send |-> <<>>, skip |-> <<>>]
    ELSE RunLoop(ws, WorkerKeys(ws), chunks, 0, recovery)

\* history in hwf: base is the length of sent, and pending the chunks pending
\* on the worker, when the call began; first tells that it is the first call
\* of handle_worker_failure of the job.
NoHwf == [active |-> FALSE, worker |-> "none", todo |-> <<>>, base |-> 0,
          pending |-> <<>>, outcome |-> "none", first |-> FALSE]

\* The for loop of handle_worker_failure over the results still to handle:
\* result["filepath"] raises KeyError for a result without that key, else
\* distribute_work runs again over the whole file.  last is the dist and skip
\* history of the latest distribute_work call; fresh tells that the loop
\* called distribute_work anew.
RECURSIVE RunFailureLoop(_, _, _, _)
RunFailureLoop(ws, chunks, todo, last) ==
    IF todo = <<>>
    THEN [outcome |-> "returned", dist |-> last.dist, send |-> <<>>,
          skip |-> last.skip, fresh |-> last.fresh, todo |-> <<>>]
    ELSE IF ~Head(todo).has_filepath
    THEN [outcome |-> "raised", dist |-> last.dist, send |-> <<>>,
          skip |-> last.skip, fresh |-> last.fresh, todo |-> <<>>]
    ELSE LET r == StartDistribute(ws, chunks, TRUE)
         IN  IF r.suspended
             THEN [outcome |-> "running", dist |-> r.dist, send |-> r.send,
                   skip |-> r.skip, fresh |-> TRUE, todo |-> Tail(todo)]
             ELSE RunFailureLoop(ws, chunks, Tail(todo),
                                 [dist |-> r.dist, skip |-> r.skip,
                                  fresh |-> TRUE])

\* history: the chunks last sent to worker w with no result received yet, in
\* chunk order
LastSendOf(log, start) ==
    LET ks == {k \in 1 .. Len(log) : log[k].start = start}
    IN  IF ks = {} THEN 0 ELSE CHOOSE k \in ks : \A l \in ks : l <= k

RECURSIVE PendingFrom(_, _, _, _, _)
PendingFrom(log, finished, chunks, w, c) ==
    IF c > Len(chunks) THEN <<>>
    ELSE LET k == LastSendOf(log, chunks[c][1])
             rest == PendingFrom(log, finished, chunks, w, c + 1)
         IN  IF k > 0 /\ log[k].worker = w /\ chunks[c][1] \notin finished
             THEN <<chunks[c][1]>> \o rest
             ELSE rest

PendingOf(w) == PendingFrom(sent, done, file_chunks, w, 1)

\* A call of distribute_work(filepath) for a new job.  The coordinator's user
\* runs one call of distribute_work or handle_worker_failure at a time.
DistributeWork ==
    /\ ~dist.active /\ ~hwf.active
    /\ LET chunks == PlanChunks(file_size, chunk_size)
           r == StartDistribute(workers, chunks, FALSE)
       IN  /\ file_chunks' = chunks
           /\ dist' = r.dist
           /\ sent' = r.send
           /\ skipped' = r.skip
    /\ planned' = TRUE
    /\ done' = {}
    /\ hwf' = NoHwf
    /\ UNCHANGED <<file_size, workers, results, submits, ret, pf_calls, reply,
                   dead>>

\* The post of send_work is answered or fails: a 200 is printed, another
\* status is passed over, an exception is caught and printed; in all three
\* cases send_work returns None and the loop goes on.  When the
\* distribute_work that ends was called by handle_worker_failure, that one's
\* loop goes on too.
ResumeDistribute(answer) ==
    /\ dist.active
    /\ answer \in PostAnswers
    /\ LET r == RunLoop(workers, dist.worker_ids, file_chunks, dist.index,
                        hwf.active)
           f == RunFailureLoop(workers, file_chunks, hwf.todo,
                               [dist |-> r.dist, skip |-> skipped \o r.skip,
                                fresh |-> FALSE])
       IN  IF r.suspended \/ ~hwf.active
           THEN /\ r.suspended => Len(sent) < MaxSends
                /\ dist' = r.dist
                /\ sent' = sent \o r.send
                /\ skipped' = skipped \o r.skip
                /\ hwf' = hwf
           ELSE /\ f.outcome = "running" => Len(sent) < MaxSends
                /\ dist' = f.dist
                /\ sent' = sent \o f.send
                /\ skipped' = f.skip
                /\ hwf' = [hwf EXCEPT !.active = (f.outcome = "running"),
                                      !.todo = f.todo,
                                      !.outcome = f.outcome]
    /\ UNCHANGED <<file_size, workers, results, file_chunks, planned, done,
                   submits, ret, pf_calls, reply, dead>>

\* A call of handle_worker_failure(worker_id).
HandleWorkerFailure(w) ==
    /\ ~dist.active /\ ~hwf.active
    /\ LET failed_worker_results == results.lists[w]
           replans == failed_worker_results # <<>>
                        /\ Head(failed_worker_results).has_filepath
           chunks == IF replans THEN PlanChunks(file_size, chunk_size)
                     ELSE file_chunks
           f == RunFailureLoop(workers, chunks, failed_worker_results,
                               [dist |-> dist, skip |-> skipped,
                                fresh |-> FALSE])
       IN  /\ f.outcome = "running" => Len(sent) < MaxSends
           /\ results' = [results EXCEPT !.lists[w] = <<>>]
           /\ file_chunks' = chunks
           /\ planned' = (planned \/ replans)
           /\ dist' = f.dist
           /\ sent' = sent \o f.send
           /\ skipped' = f.skip
           /\ hwf' = [active |-> f.outcome = "running", worker |-> w,
                      todo |-> f.todo, base |-> Len(sent),
                      pending |-> PendingOf(w), outcome |-> f.outcome,
                      first |-> (hwf.worker = "none")]
    /\ UNCHANGED <<file_size, workers, done, submits, ret, pf_calls, reply,
                   dead>>

\* ---------------------------------------------------------------- system

Init ==
    /\ file_size \in FileSizes
    /\ workers = <<>>
    /\ results = [totals |-> <<>>, lists |-> NoLists]
    /\ file_chunks = <<>>
    /\ dist = NoDist
    /\ hwf = NoHwf
    /\ planned = FALSE
    /\ sent = <<>>
    /\ skipped = <<>>
    /\ done = {}
    /\ submits = {}
    /\ ret = <<>>
    /\ pf_calls = 0
    /\ reply = NoReply
    /\ dead = {}

\* Planning and dispatch with the three workers of the tests.
NextDispatch ==
    \/ \E w \in WorkerIds : RegisterWorker(w)
    \/ \E w \in WorkerIds, s \in Statuses : UpdateWorkerHealth(w, s)
    \/ DistributeWork
    \/ \E a \in PostAnswers : ResumeDistribute(a)

SpecDispatch == Init /\ [][NextDispatch]_vars

InitJob == Init /\ file_size \in JobSizes

\* Workers submitting results, failure handling and process_file.
NextResults ==
    \/ \E w \in JobWorkers : RegisterWorker(w)
    \/ \E w \in JobWorkers, s \in Statuses : UpdateWorkerHealth(w, s)
    \/ \E w \in JobWorkers, c \in 1 .. MaxFullChunks + 1 :
          ProcessRequest(w, c, TRUE)
    \/ \E m \in submits : DeliverSubmit(m)
    \/ \E w \in JobWorkers : HandleWorkerFailure(w)
    \/ ProcessFile

SpecResults == InitJob /\ [][NextResults]_vars

\* Dispatch and failure handling.  The event loop resumes a coroutine whose
\* post has been answered: ResumeDistribute is weakly fair.  Nothing in the
\* code calls handle_worker_failure or distribute_work by itself; they are
\* calls of the coordinator's user.
NextRecovery ==
    \/ \E w \in JobWorkers : RegisterWorker(w)
    \/ \E w \in JobWorkers, s \in Statuses : UpdateWorkerHealth(w, s)
    \/ \E w \in JobWorkers : ClientSubmit(w)
    \/ DistributeWork
    \/ \E a \in PostAnswers : ResumeDistribute(a)
    \/ \E w \in JobWorkers : HandleWorkerFailure(w)

SpecRecovery == InitJob /\ [][NextRecovery]_vars /\ WF_vars(\E a \in PostAnswers : ResumeDistribute(a))

\* ---------------------------------------------------------------- planner

\* C1: once distribute_work has planned a file of file_size bytes, file_chunks
\* tiles [0, file_size): the first chunk starts at 0, each chunk ends where the
\* next starts, every length is positive and the last chunk ends at file_size
\* (no chunk at all exactly when the file is empty).
C1_ChunksTileFile ==
    planned =>
        LET n == Len(file_chunks)
        IN  /\ (n = 0) <=> (file_size = 0)
            /\ n > 0 => /\ file_chunks[1][1] = 0
                        /\ file_chunks[n][1] + file_chunks[n][2] = file_size
            /\ \A k \in 1 .. n : file_chunks[k][2] > 0
            /\ \A k \in 1 .. n - 1 :
                   file_chunks[k][1] + file_chunks[k][2] = file_chunks[k + 1][1]

\* A planned file of three chunks whose last chunk is a partial one.
C1_Witness ==
    /\ planned
    /\ Len(file_chunks) = 3
    /\ file_chunks[3][2] < chunk_size

\* C2: the planned chunks have the fixed size: none for an empty file, else
\* ceil(file_size / chunk_size) chunks, all of chunk_size bytes but the last,
\* which has file_size mod chunk_size bytes when that is not 0, else chunk_size.
C2_FixedSizeChunks ==
    planned =>
        LET n == Len(file_chunks)
            last == IF file_size % chunk_size # 0 THEN file_size % chunk_size
                    ELSE chunk_size
        IN  /\ file_size = 0 => file_chunks = <<>>
            /\ n = (file_size + chunk_size - 1) \div chunk_size
            /\ \A k \in 1 .. n - 1 : file_chunks[k][2] = chunk_size
            /\ n > 0 => file_chunks[n][2] = last

\* A planned file whose size is a multiple of the chunk size, and a planned
\* empty file, are both reached; the formula names the first.
C2_Witness ==
    /\ planned
    /\ file_size = 2 * chunk_size
    /\ Len(file_chunks) = 2
    /\ file_chunks[2][2] = chunk_size

\* ---------------------------------------------------------------- dispatch

\* C3: while some registered worker is healthy, distribute leaves no chunk
\* unsent: no send_work call returns without posting at a moment when a
\* registered worker is healthy.  (A post always goes out in the name of a
\* worker that is healthy at that moment: send_work checks it.)
C3_NoChunkLeftUnsent ==
    \A k \in 1 .. Len(skipped) : ~skipped[k].could

\* C4: as long as no chunk has met an unhealthy worker, the k-th post of a
\* distribute is chunk k - 1 in offset order and names the worker at position
\* (k - 1) mod W of the registration order, W the number of workers registered
\* when the distribute started; when such a distribute ends, every chunk has
\* been posted.
C4_RoundRobin ==
    (planned /\ skipped = <<>> /\ dist.worker_ids # <<>>) =>
        LET W == Len(dist.worker_ids)
        IN  /\ \A k \in 1 .. Len(sent) :
                   /\ sent[k].start = file_chunks[k][1]
                   /\ sent[k].size = file_chunks[k][2]
                   /\ sent[k].worker = workers[((k - 1) % W) + 1].id
            /\ ~dist.active => Len(sent) = Len(file_chunks)

\* The scenario: 3,000,000 bytes, three healthy workers, three chunks, one per
\* worker in registration order.
C4_Witness ==
    /\ file_size = 3000000
    /\ planned /\ ~dist.active /\ skipped = <<>>
    /\ Len(dist.worker_ids) = 3
    /\ Len(file_chunks) = 3
    /\ [k \in 1 .. 3 |-> sent[k].worker] = WorkerKeys(workers)
    /\ [k \in 1 .. 3 |-> sent[k].start] = <<0, chunk_size, 2 * chunk_size>>

\* ---------------------------------------------------------------- results

\* history: the stored results that were computed from the range at start
RECURSIVE CountFor(_, _)
CountFor(rs, start) ==
    IF rs = <<>> THEN 0
    ELSE (IF Head(rs).chunk = start THEN 1 ELSE 0) + CountFor(Tail(rs), start)

RECURSIVE StoredFor(_, _)
StoredFor(ids, start) ==
    IF ids = {} THEN 0
    ELSE LET w == CHOOSE x \in ids : TRUE
         IN  CountFor(results.lists[w], start) + StoredFor(ids \ {w}, start)

\* C5: a chunk whose result is submitted more than once is taken once: of the
\* results received for one chunk only the first is kept for the aggregate.
C5_OneResultPerChunk ==
    \A c \in 1 .. Len(FileRanges) : StoredFor(JobWorkers, FileRanges[c][1]) <= 1

Reorder(rs, p) == [k \in 1 .. Len(rs) |-> rs[p[k]]]

RECURSIVE SumField(_, _)
SumField(rs, f) == IF rs = <<>> THEN 0 ELSE Head(rs)[f] + SumField(Tail(rs), f)

\* C10: whatever the coordinator held before the call, what process_file returns
\* has total_requests = 3000 and malformed_lines = 30, the sums of those fields
\* over the partial results; a second call returns the same, not the double.
C10_ProcessFileSums ==
    ret # <<>> =>
        /\ ret[1].total_requests = SumField(worker_results, "total_requests")
        /\ ret[1].malformed_lines = SumField(worker_results, "malformed_lines")
        /\ ret[1].total_requests = 3000
        /\ ret[1].malformed_lines = 30

\* The second call, on a coordinator with an unhealthy worker and a worker
\* whose failure was handled.
C10_Witness ==
    /\ pf_calls = 2
    /\ ret # <<>>
    /\ \E k \in 1 .. Len(workers) : workers[k].status = "unhealthy"
    /\ hwf.outcome = "raised"

\* ---------------------------------------------------------------- recovery

\* max_attempts: "default small integer >= 1" (the design's bound on the
\* re-dispatches of one chunk; the code has none)
max_attempts == 2

\* history: the ranges posted since the running or latest
\* handle_worker_failure call began
Redispatched == [k \in 1 .. Len(sent) - hwf.base |-> sent[hwf.base + k].start]

\* C7: when handle_worker_failure(w) has ended for a worker that owned pending
\* chunks, the chunks it re-dispatched are exactly the chunks that were pending
\* on w when it was called, in chunk order.
C7_ExactlyPendingRedispatched ==
    (hwf.worker # "none" /\ ~hwf.active /\ hwf.pending # <<>>) =>
        Redispatched = hwf.pending

RecoveryCount(start) ==
    Cardinality({k \in 1 .. Len(sent) :
                    sent[k].recovery /\ sent[k].start = start})

\* C8: failure handling re-dispatches a chunk that distribute has dispatched
\* at most max_attempts times.
C8_BoundedRedispatch ==
    \A c \in 1 .. Len(file_chunks) :
        (\E k \in 1 .. Len(sent) :
            ~sent[k].recovery /\ sent[k].start = file_chunks[c][1])
        => RecoveryCount(file_chunks[c][1]) <= max_attempts

\* history: chunk c was last sent to w, has no result, w is unhealthy and
\* another registered worker is healthy
Stranded(w, c) ==
    /\ c <= Len(file_chunks)
    /\ LastSendOf(sent, file_chunks[c][1]) > 0
    /\ sent[LastSendOf(sent, file_chunks[c][1])].worker = w
    /\ file_chunks[c][1] \notin done
    /\ w \in Registered(workers) /\ StatusOf(workers, w) = "unhealthy"
    /\ \E v \in Registered(workers) \ {w} : StatusOf(workers, v) = "healthy"

\* C9: a chunk pending on a worker that has gone unhealthy, while another
\* worker is healthy, does not stay there for ever: it is eventually sent to a
\* different worker (or, short of that, a result for it arrives, its worker is
\* healthy again, no other worker is healthy any more or a new job begins).
C9_EventuallyReassigned ==
    \A w \in JobWorkers : \A c \in 1 .. 2 : Stranded(w, c) ~> ~Stranded(w, c)

\* ---------------------------------------------------------------- job

\* C11: process_file returns only when every chunk of the file is completed:
\* once it has returned, a result has been received for each byte range of
\* the file.  (Where no distribute_work begins a new job, done only grows, so
\* what held at the return holds ever after.)
C11_ReturnsWhenAllChunksDone ==
    ret # <<>> => \A c \in 1 .. Len(FileRanges) : FileRanges[c][1] \in done

\* ---------------------------------------------------------------- registry

\* The registry next to stored results and a distributed file: the three
\* workers of the tests register and report, a client submits results, a file
\* of one or two chunks is distributed.
NextRegistry ==
    \/ \E w \in WorkerIds : RegisterWorker(w)
    \/ \E w \in WorkerIds, s \in Statuses : UpdateWorkerHealth(w, s)
    \/ \E w \in JobWorkers : ClientSubmit(w)
    \/ DistributeWork
    \/ \E a \in PostAnswers : ResumeDistribute(a)

SpecRegistry == InitJob /\ [][NextRegistry]_vars

RecordsOf(ws, w) == {k \in 1 .. Len(ws) : ws[k].id = w}

\* C12: register_worker(w) never errors and is idempotent: whatever the registry
\* held for w (nothing, healthy, unhealthy), after the call it holds exactly
\* one record for w, with status healthy, the answer is 200, registering w
\* once more would leave the registry as it is, and every other worker has
\* the record it had, or none if it had none.
C12_RegisterIdempotent ==
    [][\A w \in WorkerIds :
          RegisterWorker(w) =>
              /\ Cardinality(RecordsOf(workers', w)) = 1
              /\ StatusOf(workers', w) = "healthy"
              /\ reply'.status = 200
              /\ SetStatus(workers', w, "healthy") = workers'
              /\ \A v \in WorkerIds \ {w} :
                    /\ RecordsOf(workers', v) = RecordsOf(workers, v)
                    /\ v \in Registered(workers) =>
                           StatusOf(workers', v) = StatusOf(workers, v)]_vars

\* The handler that returned last is register_worker, and the registry holds
\* a healthy worker followed by an unhealthy one: the call registered the
\* first worker again (the second was added, and reported unhealthy, after the
\* first had its record) and left the second one's record alone.
C12_Witness ==
    /\ reply.handler = "register"
    /\ Len(workers) = 2
    /\ workers[1].status = "healthy"
    /\ workers[2].status = "unhealthy"

\* C13: a health report for a worker id that has no record is rejected: it is
\* not answered with the 200 "Health updated" of an accepted update.
C13_UnknownWorkerRejected ==
    (reply.handler = "health" /\ ~reply.found) =>
        ~(reply.status = 200 /\ reply.text = "Health updated")

\* ---------------------------------------------------------------- dispatch outcomes

\* history: the latest distribute_work call was for a file with chunks, ran at
\* a moment when no registered worker was healthy (or none was registered),
\* and has ended.  Such a call posts nothing, so it runs without suspension
\* and the registry it met is the one its send_work calls recorded.
NoHealthyRun ==
    /\ planned /\ ~dist.active /\ hwf.worker = "none"
    /\ file_chunks # <<>>
    /\ sent = <<>>
    /\ \A k \in 1 .. Len(skipped) : ~skipped[k].could

\* C14: a distribute_work that finds no healthy worker fails with the outcome
\* NoHealthyWorkers.
C14_NoHealthyWorkersFails ==
    NoHealthyRun => dist.outcome = "NoHealthyWorkers"

\* ---------------------------------------------------------------- worker processes

\* A worker process stops (it crashes or is killed): its report_health loop
\* ends with it, it sends nothing more.
WorkerStops(w) ==
    /\ w \notin dead
    /\ dead' = dead \cup {w}
    /\ UNCHANGED <<file_size, workers, results, file_chunks, dist, hwf, sent,
                   skipped, planned, done, submits, ret, pf_calls, reply>>

\* A stopped worker is started again.
WorkerStarts(w) ==
    /\ w \in dead
    /\ dead' = dead \ {w}
    /\ UNCHANGED <<file_size, workers, results, file_chunks, dist, hwf, sent,
                   skipped, planned, done, submits, ret, pf_calls, reply>>

\* One round of Worker.report_health: a running worker posts
\* {worker_id, "healthy"} to /health, every ten seconds, for ever.
ReportHealth(w) == w \notin dead /\ UpdateWorkerHealth(w, "healthy")

\* A running worker is registered (the worker itself never posts to
\* /register).
RegisterRunning(w) == w \notin dead /\ RegisterWorker(w)

\* Workers that run, report and stop, next to a distribution.  The event loop
\* resumes a coroutine whose post is answered and a running worker's
\* report_health loop goes round: both are weakly fair.  The coordinator has no
\* timer and no periodic task.
NextLiveness ==
    \/ \E w \in JobWorkers : RegisterRunning(w)
    \/ \E w \in JobWorkers : ReportHealth(w)
    \/ \E w \in JobWorkers : WorkerStops(w)
    \/ \E w \in JobWorkers : WorkerStarts(w)
    \/ DistributeWork
    \/ \E a \in PostAnswers : ResumeDistribute(a)

SpecLiveness ==
    /\ InitJob
    /\ [][NextLiveness]_vars
    /\ WF_vars(\E a \in PostAnswers : ResumeDistribute(a))
    /\ \A w \in JobWorkers : WF_vars(ReportHealth(w))

\* history: w is registered and held healthy although its process has stopped
SilentlyDead(w) == w \in dead /\ CanSend(workers, w)

\* C15: a registered worker that has stopped, and so sends no heartbeat any
\* more, does not stay healthy in the registry for ever: it is eventually
\* marked unhealthy (or, short of that, is started again).
C15_SilentDeathDetected ==
    \A w \in JobWorkers : SilentlyDead(w) ~> ~SilentlyDead(w)

\* ---------------------------------------------------------------- worker results

\* Workers processing the ranges of the file, readable or not, and posting
\* their metrics; a post is received by the coordinator or fails.
NextWorker ==
    \/ \E w \in JobWorkers, c \in 1 .. MaxFullChunks + 1, readable \in BOOLEAN :
          ProcessRequest(w, c, readable)
    \/ \E m \in submits : DeliverSubmit(m)
    \/ \E m \in submits : LoseSubmit(m)

SpecWorker == InitJob /\ [][NextWorker]_vars

\* The results the coordinator holds or is about to receive.
KnownResults ==
    {m.result : m \in submits} \cup
    UNION {{results.lists[w][k] : k \in 1 .. Len(results.lists[w])} :
              w \in JobWorkers}

IsPrefix(s, t) == Len(s) <= Len(t) /\ \A k \in 1 .. Len(s) : s[k] = t[k]

\* C16: a process request whose range cannot be read still posts a result, with
\* all three counts zero, and touches nothing the coordinator holds; the
\* request is answered 200 whether or not the post arrives; a result that is
\* received is appended and every result stored before stays as it was; and
\* every result computed from a range that was read carries the counts of
\* that range's lines, whatever failed before it.
C16_UnreadableChunkStillReported ==
    /\ [](\A r \in KnownResults :
             r.metrics = IF r.readable
                         THEN ProcessChunk(TRUE, FileLines(r.chunk))
                         ELSE ZeroMetrics)
    /\ [][/\ \A w \in JobWorkers, c \in 1 .. MaxFullChunks + 1 :
               ProcessRequest(w, c, FALSE) =>
                   /\ \E m \in submits' \ submits :
                         /\ m.worker_id = w
                         /\ m.result.chunk = FileRanges[c][1]
                         /\ m.result.metrics = ZeroMetrics
                   /\ submits \subseteq submits'
                   /\ results' = results
          /\ \A m \in submits :
               (DeliverSubmit(m) \/ LoseSubmit(m)) =>
                   /\ reply'.status = 200
                   /\ reply'.text = "Chunk processed"
          /\ \A m \in submits :
               DeliverSubmit(m) =>
                   /\ results'.lists[m.worker_id] =
                          Append(results.lists[m.worker_id], m.result)
                   /\ \A v \in WorkerIds :
                          IsPrefix(results.lists[v], results'.lists[v])]_vars

\* A worker's request for the unreadable first range was answered 200 and its
\* all-zero result is stored; the result of the second range, read after it, is
\* stored with the counts of its two lines.
C16_Witness ==
    /\ reply = Response("process", FALSE, "Chunk processed")
    /\ \E w \in JobWorkers :
          /\ Len(results.lists[w]) = 2
          /\ results.lists[w][1].chunk = 0
          /\ ~results.lists[w][1].readable
          /\ results.lists[w][1].metrics =
                 [lines |-> 0, errors |-> 0, warnings |-> 0]
          /\ results.lists[w][2].chunk = chunk_size
          /\ results.lists[w][2].readable
          /\ results.lists[w][2].metrics =
                 [lines |-> 2, errors |-> 0, warnings |-> 1]

\* ---------------------------------------------------------------- assignments

\* history: the position in sent of the latest post of the range at start made
\* before the running or latest handle_worker_failure call began, 0 if none
PostedBefore(start) == LastSendOf(SubSeq(sent, 1, hwf.base), start)

\* C17: a chunk is never in flight to two workers at once.  During the first
\* handle_worker_failure of a job every earlier post without a result is a
\* pending assignment; the call for worker w may re-send w's chunks, but a
\* chunk that is pending on another, healthy worker is not posted to a
\* second worker.
C17_OnePendingPerChunk ==
    (hwf.worker # "none" /\ hwf.first) =>
        \A l \in hwf.base + 1 .. Len(sent) :
            LET k == PostedBefore(sent[l].start)
            IN  (/\ k > 0
                 /\ sent[l].start \notin done
                 /\ sent[k].worker # hwf.worker
                 /\ CanSend(workers, sent[k].worker))
                => sent[l].worker = sent[k].worker

\* ---------------------------------------------------------------- sends

\* C18: a failed send is recovered on the spot: when the post of send_work is
\* answered with a status other than 200, or raises, the run of the
\* coordinator that takes note of it leaves the target worker marked
\* unhealthy (not healthy in the registry any more).
C18_FailedSendMarksUnhealthy ==
    [][\A a \in PostAnswers \ {"ok"} :
          ResumeDistribute(a) => ~CanSend(workers', sent[Len(sent)].worker)]_vars

\* C19: every work request is addressed to the worker its chunk was assigned
\* to.
C19_RequestGoesToAssignedWorker ==
    \A k \in 1 .. Len(sent) : sent[k].dest = sent[k].worker

\* ---------------------------------------------------------------- unknown ids

\* C20: a health report for a worker id that has no record changes nothing:
\* the registry (its ids, their order and every status), the stored results
\* and the chunk list are the same after the call as before it, and the
\* unknown id still has no record.
C20_UnknownReportChangesNothing ==
    [][\A w \in WorkerIds, s \in Statuses :
          (UpdateWorkerHealth(w, s) /\ w \notin Registered(workers)) =>
              /\ workers' = workers
              /\ results' = results
              /\ file_chunks' = file_chunks
              /\ w \notin Registered(workers')]_vars

\* The handler that returned last is update_worker_health for an id without a
\* record, on a coordinator that holds a registered worker, a stored result
\* and a planned file.
C20_Witness ==
    /\ reply.handler = "health"
    /\ ~reply.found
    /\ workers # <<>>
    /\ StoredCount(results.lists, WorkerIds) > 0
    /\ file_chunks # <<>>

====
